---- MODULE Spec2Model ----
(***************************************************************************)
(* Model of ptree_loader::PtreeLoader<T> (src/PtreeLoader/PtreeLoader.h).  *)
(*                                                                         *)
(* Encodings.                                                              *)
(*  - A string that is used as a file path is kept as the path it denotes: *)
(*    [abs, segs], abs = the string starts with '/', segs = its components *)
(*    between '/' ("." and ".." included).  Every ptree data string is     *)
(*    kept this way, so "1" is the relative one-component path "1".        *)
(*  - A ptree key is kept as the sequence of its pieces between '.', the   *)
(*    default separator of boost::property_tree::path: "a.b" is            *)
(*    <<"a","b">>, "IncludeFile" is <<"IncludeFile">>.  The keys of the    *)
(*    modelled files are non-empty and have no empty piece.                *)
(*  - A ptree node is [data, kids], kids a sequence of <<key, node>>.      *)
(*  - The file system has no symbolic links, so fs::weakly_canonical is    *)
(*    lexical normalisation of an absolute path.                           *)
(***************************************************************************)
EXTENDS Integers, Sequences, FiniteSets, TLC

VARIABLES files, root, diagnostic, depth, stack, outcome, loads

vars == <<files, root, diagnostic, depth, stack, outcome, loads>>

(***************************************************************************)
(* Bounds of the model.                                                    *)
(***************************************************************************)
\* number of top-level Load calls made on the one loader instance
MaxLoads == 2
\* longest include chain f1 -> f2 -> ... among the modelled file systems
MaxChain == 22

(***************************************************************************)
(* Program constants.                                                      *)
(***************************************************************************)
includeKey == <<"IncludeFile">>

depthLimit == 20

(***************************************************************************)
(* Paths (std::filesystem::path).                                          *)
(***************************************************************************)
Path(a, s) == [abs |-> a, segs |-> s]

Rel(s) == Path(FALSE, s)

Abs(s) == Path(TRUE, s)

\* the empty path ""
EmptyPath == Rel(<<>>)

\* fs::current_path() of the process
cwd == Abs(<<"w">>)

\* A component longer than NAME_MAX: stat() on a path holding it fails with
\* ENAMETOOLONG, which is neither ENOENT nor ENOTDIR.
LongName == "long"

\* fsPath.is_absolute() ? fsPath : fsParentPath / fsPath
Join(parent, p) == IF p.abs THEN p ELSE Path(parent.abs, parent.segs \o p.segs)

\* lexical normalisation of the components of an absolute path
RECURSIVE NormalSegs(_, _)
NormalSegs(done, rest) ==
    IF rest = <<>> THEN done
    ELSE IF Head(rest) = "." THEN NormalSegs(done, Tail(rest))
    ELSE IF Head(rest) = ".."
         THEN NormalSegs(IF done = <<>> THEN done ELSE SubSeq(done, 1, Len(done) - 1),
                         Tail(rest))
    ELSE NormalSegs(Append(done, Head(rest)), Tail(rest))

\* fs::weakly_canonical, on a file system without symbolic links
WeaklyCanonical(p) == Path(p.abs, NormalSegs(<<>>, p.segs))

\* path::parent_path()
ParentPath(p) == Path(p.abs, IF p.segs = <<>> THEN <<>> ELSE SubSeq(p.segs, 1, Len(p.segs) - 1))

\* fs::status throws filesystem_error: the OS error is not "not found"
StatusThrows(p) == \E i \in 1..Len(p.segs) : p.segs[i] = LongName

(***************************************************************************)
(* Property trees (boost::property_tree::ptree).                           *)
(***************************************************************************)
Node(d, k) == [data |-> d, kids |-> k]

EmptyTree == Node(EmptyPath, <<>>)

\* a leaf child  key = value
Leaf(k, v) == <<k, Node(Rel(<<v>>), <<>>)>>

\* a child  IncludeFile = p
Inc(p) == <<includeKey, Node(p, <<>>)>>

\* some node of the forest kids, at any nesting level, is keyed IncludeFile
RECURSIVE HasIncludeNode(_)
HasIncludeNode(kids) ==
    \E i \in 1..Len(kids) : kids[i][1] = includeKey \/ HasIncludeNode(kids[i][2].kids)

\* ptree::add_child(path, value): walk (creating what is missing) the parents
\* the key names as a '.'-separated path, then push_back under the last
\* piece.  ptree::find gives no guarantee about which of several children of
\* one key it returns, so the result is a set.
RECURSIVE AddChild(_, _, _)
AddChild(t, key, value) ==
    IF Len(key) = 1
    THEN {Node(t.data, Append(t.kids, <<key, value>>))}
    ELSE LET found == {i \in 1..Len(t.kids) : t.kids[i][1] = <<Head(key)>>}
         IN  IF found = {}
             THEN {Node(t.data, Append(t.kids, <<<<Head(key)>>, sub>>)) :
                       sub \in AddChild(EmptyTree, Tail(key), value)}
             ELSE UNION {{Node(t.data, [t.kids EXCEPT ![i] = <<t.kids[i][1], sub>>]) :
                              sub \in AddChild(t.kids[i][2], Tail(key), value)} :
                         i \in found}

(***************************************************************************)
(* The file system the loader reads: a function from the component         *)
(* sequences of the regular files to their contents.  A content is         *)
(* [ok, kids]: ok = the format parser accepts it, kids = the children of   *)
(* the tree the parser builds from it.                                     *)
(***************************************************************************)
File(kids) == [ok |-> TRUE, kids |-> kids]

Bad == [ok |-> FALSE, kids |-> <<>>]

MkFS(entries) == [p \in {e[1] : e \in entries} |-> (CHOOSE e \in entries : e[1] = p)[2]]

PA == <<"w", "d1", "a">>

PB == <<"w", "d1", "b">>

PC == <<"w", "d2", "c">>

ContentsA ==
    { File(<<Leaf(<<"x">>, "1"), Inc(Rel(<<"b">>)), Leaf(<<"x">>, "2")>>),
      File(<<Inc(Rel(<<"m">>)), Inc(Rel(<<"a">>))>>),
      File(<<Inc(Rel(<<"a">>)), Leaf(<<"x">>, "1")>>),
      File(<<Leaf(<<"a">>, "0"), Leaf(<<"a", "b">>, "3"),
             <<<<"n">>, Node(EmptyPath, <<Inc(Rel(<<"b">>))>>)>>>>),
      File(<<Inc(Rel(<<"..", "d2", "c">>)), Leaf(<<"x">>, "1"), Inc(Rel(<<LongName>>))>>) }

ContentsB ==
    { Bad,
      File(<<Leaf(<<"y">>, "2"), Leaf(<<"y">>, "2")>>),
      File(<<Leaf(<<"a">>, "0"), Leaf(<<"a", "b">>, "3")>>),
      File(<<Leaf(<<"y">>, "2"), Inc(Abs(PA))>>) }

ContentsC ==
    { File(<<Leaf(<<"z">>, "3"), Inc(Rel(<<"b">>))>>),
      File(<<Inc(Rel(<<"..", "d1", "b">>)), Leaf(<<"z">>, "3")>>) }

SmallFileSystems ==
    { MkFS({<<PA, a>>} \cup bs \cup cs) :
        a \in ContentsA,
        bs \in {{}} \cup {{<<PB, b>>} : b \in ContentsB},
        cs \in {{}} \cup {{<<PC, c>>} : c \in ContentsC} }

\* a chain of n files f1 .. fn in one directory, each including the next:
\* fi = { k: fi, IncludeFile: f(i+1), t: fi }, the last key being c.t in
\* every second file
ChainName(i) == "f" \o ToString(i)

ChainPath(i) == <<"w", "ch", ChainName(i)>>

ChainFile(i, n) ==
    File(IF i < n
         THEN <<Leaf(<<"k">>, ChainName(i)), Inc(Rel(<<ChainName(i + 1)>>)),
                Leaf(IF i % 2 = 0 THEN <<"c", "t">> ELSE <<"t">>, ChainName(i))>>
         ELSE <<Leaf(<<"k">>, ChainName(i))>>)

ChainFS(n) == MkFS({<<ChainPath(i), ChainFile(i, n)>> : i \in 1..n})

ChainLens == (depthLimit + 1)..MaxChain

FileSystems == SmallFileSystems \cup {ChainFS(n) : n \in ChainLens}

\* the paths the caller hands to Load(fsPath)
RootPaths ==
    { Rel(<<"d1", "a">>), Abs(<<"w", "d1", ".", "b">>), Rel(<<"ch", "f1">>) }

\* fs::exists(p): a regular file, or a directory on the way to one
Exists(p) ==
    \/ p.segs \in DOMAIN files
    \/ \E f \in DOMAIN files :
          Len(f) > Len(p.segs) /\ SubSeq(f, 1, Len(p.segs)) = p.segs

\* Reader(fname, pt) throws a std::exception: not a file the parser accepts
ReaderThrows(p) == p.segs \notin DOMAIN files \/ ~files[p.segs].ok

(***************************************************************************)
(* Load(fsPath, fsParentPath) up to the merge loop.                        *)
(***************************************************************************)
LoopLine == [kind |-> "Loop", path |-> EmptyPath]

NotFoundLine(p) == [kind |-> "NotFound", path |-> p]

LoadingLine(p) == [kind |-> "Loading", path |-> p]

ErrorLine == [kind |-> "Error", path |-> EmptyPath]

Frame(p, kids) == [path |-> p, kids |-> kids, idx |-> 1]

NoFrame == [path |-> EmptyPath, kids |-> <<>>, idx |-> 0]

\* mutants of the loop guard: off by one either way
DepthExceededEarly(d) == d >= depthLimit

DepthExceededLate(d) == d > depthLimit + 1

\* ++depth > depthLimit, on the incremented value
DepthExceeded(d) == d > depthLimit

\* The outcome of one resolution step entered with depth d and log diag:
\* the new depth and log, how the step ended, and the frame of the merge
\* loop when it parsed the file.
Enter(p, parent, d, diag) ==
    LET d1 == d + 1
        joined == Join(parent, p)
        eff == WeaklyCanonical(joined)
    IN  IF DepthExceeded(d1)
        THEN [depth |-> d1, diag |-> Append(diag, LoopLine), result |-> "loop",
              frame |-> NoFrame]
        ELSE IF StatusThrows(joined)
        THEN [depth |-> d1, diag |-> diag, result |-> "throw", frame |-> NoFrame]
        ELSE IF ~Exists(eff)
        THEN [depth |-> d1, diag |-> Append(diag, NotFoundLine(eff)),
              result |-> "notfound", frame |-> NoFrame]
        ELSE IF ReaderThrows(eff)
        THEN [depth |-> d1, diag |-> diag \o <<LoadingLine(eff), ErrorLine>>,
              result |-> "error", frame |-> NoFrame]
        ELSE [depth |-> d1, diag |-> Append(diag, LoadingLine(eff)),
              result |-> "parsed", frame |-> Frame(eff, files[eff.segs].kids)]

\* mutant: the include key is looked for at every nesting level of the child
IsIncludeAnyLevel(kv) == HasIncludeNode(<<kv>>)

\* kv.first == includeKey
IsInclude(kv) == kv[1] = includeKey

\* mutant: nested includes resolved against the working directory
IncludeParentCwd(frame) == cwd

\* fsEffectivePath.parent_path() of the including file
IncludeParent(frame) == ParentPath(frame.path)

\* fsPath.is_relative() ? fs::current_path() : ""
TopParent(p) == IF ~p.abs THEN cwd ELSE EmptyPath

Top == stack[Len(stack)]

(***************************************************************************)
(* State after construction: the caller's tree is empty, the log is empty, *)
(* depth is not initialised by the constructor.                            *)
(***************************************************************************)
Init ==
    /\ files \in FileSystems
    /\ root = EmptyTree
    /\ diagnostic = <<>>
    /\ depth \in {-1, 0, depthLimit + 1}
    /\ stack = <<>>
    /\ outcome = "none"
    /\ loads = 0

\* Load(fsPath): the public entry, up to the merge loop of the root file
LoadTop(p) ==
    /\ stack = <<>>
    /\ loads < MaxLoads
    /\ \E r \in {Enter(p, TopParent(p), 0, diagnostic)} :
           /\ depth' = r.depth
           /\ diagnostic' = r.diag
           /\ stack' = IF r.result = "parsed" THEN <<r.frame>> ELSE <<>>
           /\ outcome' = IF r.result = "throw" THEN "raised"
                         ELSE IF r.result = "parsed" THEN "running" ELSE "returned"
    /\ loads' = loads + 1
    /\ UNCHANGED <<files, root>>

\* one iteration of the merge loop of the innermost active Load: add_child,
\* and for an include key the nested Load up to its own merge loop
MergeChild ==
    /\ stack # <<>>
    /\ Top.idx <= Len(Top.kids)
    /\ LET kv == Top.kids[Top.idx]
           advanced == [stack EXCEPT ![Len(stack)].idx = @ + 1]
       IN  /\ root' \in AddChild(root, kv[1], kv[2])
           /\ IF IsInclude(kv)
              THEN \E r \in {Enter(kv[2].data, IncludeParent(Top), depth, diagnostic)} :
                       /\ depth' = r.depth
                       /\ diagnostic' = r.diag
                       /\ stack' = IF r.result = "throw" THEN <<>>
                                   ELSE IF r.result = "parsed" THEN Append(advanced, r.frame)
                                   ELSE advanced
                       /\ outcome' = IF r.result = "throw" THEN "raised" ELSE outcome
              ELSE /\ stack' = advanced
                   /\ UNCHANGED <<depth, diagnostic, outcome>>
    /\ UNCHANGED <<files, loads>>

\* the merge loop of the innermost active Load is over: it returns
Return ==
    /\ stack # <<>>
    /\ Top.idx > Len(Top.kids)
    /\ stack' = SubSeq(stack, 1, Len(stack) - 1)
    /\ outcome' = IF Len(stack) = 1 THEN "returned" ELSE outcome
    /\ UNCHANGED <<files, root, diagnostic, depth, loads>>

Next ==
    \/ \E p \in RootPaths : LoadTop(p)
    \/ MergeChild
    \/ Return

Spec == Init /\ [][Next]_vars

\* Load runs to completion once called: no suspension points
FairSpec == Spec /\ WF_vars(MergeChild) /\ WF_vars(Return)

TypeOK ==
    /\ depth \in Int
    /\ outcome \in {"none", "running", "returned", "raised"}
    /\ loads \in 0..MaxLoads

(***************************************************************************)
(* Helpers of the properties.                                              *)
(***************************************************************************)
IsPrefix(s, t) == Len(s) <= Len(t) /\ SubSeq(t, 1, Len(s)) = s

Last(s) == s[Len(s)]

\* the number of files the log says were opened for parsing
CountLoading(diag) == Cardinality({i \in 1..Len(diag) : diag[i].kind = "Loading"})

\* the merge-loop child the next MergeChild step handles
CurrentKV == Top.kids[Top.idx]

\* the first line a resolution step of this transition appended
StepLine == diagnostic'[Len(diagnostic) + 1]

(***************************************************************************)
(* C1 (as claimed): every top-level Load resets depth and clears the log   *)
(* at entry, so right after the entry of Load(p) the depth is that of the  *)
(* root step and the log holds the lines of this Load alone, none of an    *)
(* earlier call.                                                           *)
(***************************************************************************)
C1_LogClearedAtEntry ==
    [][\A p \in RootPaths :
          LoadTop(p) =>
              /\ depth' = 1
              /\ diagnostic' = Enter(p, TopParent(p), 0, <<>>).diag]_vars

(***************************************************************************)
(* C2 (as claimed): a branch that ended in path-not-found or parse error   *)
(* changes nothing for the includes after it: the include resolved right   *)
(* after such a branch is rejected by the loop guard only if it would have *)
(* been rejected without that branch, i.e. with a depth one less.          *)
(***************************************************************************)
C2_FailedBranchIsLocal ==
    [][(/\ MergeChild
        /\ IsInclude(CurrentKV)
        /\ diagnostic # <<>>
        /\ Last(diagnostic).kind \in {"NotFound", "Error"}
        /\ Len(diagnostic') > Len(diagnostic)
        /\ StepLine = LoopLine)
       => DepthExceeded(depth)]_vars

(***************************************************************************)
(* C3 (as claimed): Load never raises to its caller.                       *)
(***************************************************************************)
C3_NeverRaises == outcome # "raised"

(***************************************************************************)
(* C4 (as claimed): a node keyed IncludeFile at any nesting level of a     *)
(* merged child starts a resolution step.                                  *)
(***************************************************************************)
C4_IncludeAtAnyLevel ==
    [][(MergeChild /\ HasIncludeNode(<<CurrentKV>>)) => depth' = depth + 1]_vars

(***************************************************************************)
(* C4 (amended): of the nodes of a parsed file exactly the immediate       *)
(* children keyed IncludeFile start a resolution step, one each, for the   *)
(* path their value names; a child under another key starts none and       *)
(* leaves depth and log alone, IncludeFile nodes nested in it included.    *)
(***************************************************************************)
C4_IncludeAtTopLevelOnly ==
    [][MergeChild =>
          IF CurrentKV[1] = includeKey
          THEN /\ depth' = depth + 1
               /\ (depth' <= depthLimit /\ outcome' # "raised") =>
                     /\ Len(diagnostic') > Len(diagnostic)
                     /\ StepLine.kind \in {"NotFound", "Loading"}
                     /\ StepLine.path =
                           WeaklyCanonical(Join(ParentPath(Top.path), CurrentKV[2].data))
          ELSE depth' = depth /\ diagnostic' = diagnostic /\ Len(stack') = Len(stack)]_vars

\* a child holding a nested IncludeFile node was merged and the only step
\* after the root's is the one of an immediate IncludeFile child
C4_Witness ==
    /\ outcome = "returned"
    /\ loads = 1
    /\ depth = 2
    /\ \E i \in 1..Len(root.kids) :
          root.kids[i][1] # includeKey /\ HasIncludeNode(root.kids[i][2].kids)

(***************************************************************************)
(* C5 (as claimed): a parseable file without include key, loaded into the  *)
(* empty tree, leaves the tree's children identical to the parser's.       *)
(***************************************************************************)
C5_SingleFileIdentical ==
    (/\ loads = 1
     /\ outcome = "returned"
     /\ Len(diagnostic) = 1
     /\ diagnostic[1].kind = "Loading"
     /\ ~HasIncludeNode(files[diagnostic[1].path.segs].kids))
    => root.kids = files[diagnostic[1].path.segs].kids

(***************************************************************************)
(* C6 (as claimed): A including an existing parseable B (B without         *)
(* includes of its own) leaves A's children up to and including the        *)
(* IncludeFile entry, then B's children, then A's remaining children.      *)
(***************************************************************************)
C6_ExpandedInPlace ==
    (/\ loads = 1
     /\ outcome = "returned"
     /\ diagnostic # <<>>
     /\ diagnostic[1].kind = "Loading")
    => LET pathA == diagnostic[1].path
           A == files[pathA.segs].kids
           incs == {i \in 1..Len(A) : A[i][1] = includeKey}
       IN  \A i \in incs :
              LET pathB == WeaklyCanonical(Join(ParentPath(pathA), A[i][2].data))
              IN  (/\ incs = {i}
                   /\ pathB.segs \in DOMAIN files
                   /\ files[pathB.segs].ok
                   /\ \A j \in 1..Len(files[pathB.segs].kids) :
                         files[pathB.segs].kids[j][1] # includeKey)
                  => root.kids = SubSeq(A, 1, i) \o files[pathB.segs].kids
                                   \o SubSeq(A, i + 1, Len(A))

\* the children the chain files i .. lim merge: each file's children up to
\* its include entry, the next file's expansion, then its remaining children
\* the trees that merging the children kvs, in this order, can make of trees
RECURSIVE MergeAll(_, _)
MergeAll(trees, kvs) ==
    IF kvs = <<>> THEN trees
    ELSE MergeAll(UNION {AddChild(t, Head(kvs)[1], Head(kvs)[2]) : t \in trees}, Tail(kvs))

\* the child is keyed k, the first child of every chain file
KeyedK(kv) == kv[1] = <<"k">>

RECURSIVE ChainMerged(_, _)
ChainMerged(i, lim) ==
    LET kids == files[ChainPath(i)].kids
    IN  IF i > lim THEN <<>>
        ELSE SubSeq(kids, 1, 2) \o ChainMerged(i + 1, lim) \o SubSeq(kids, 3, Len(kids))

(***************************************************************************)
(* C7: of a chain of n > depthLimit parseable files, each including the    *)
(* next, Load of the first into the empty tree opens exactly the first     *)
(* depthLimit files and merges exactly their children, in include order,   *)
(* logs the loop line for the next step and expands nothing further.       *)
(***************************************************************************)
C7_ChainStopsAtLimit ==
    (/\ files \in {ChainFS(n) : n \in ChainLens}
     /\ loads = 1
     /\ outcome = "returned"
     /\ diagnostic # <<>>
     /\ diagnostic[1] = LoadingLine(Abs(ChainPath(1))))
    => /\ diagnostic = [i \in 1..(depthLimit + 1) |->
                           IF i <= depthLimit THEN LoadingLine(Abs(ChainPath(i)))
                           ELSE LoopLine]
       /\ root \in MergeAll({EmptyTree}, ChainMerged(1, depthLimit))
       /\ SelectSeq(root.kids, KeyedK) =
              [i \in 1..depthLimit |-> Leaf(<<"k">>, ChainName(i))]
       /\ depth = depthLimit + 1

\* the Load of the first file of a chain longer than depthLimit has returned
\* and the last line of its log is the loop line
C7_Witness ==
    /\ files \in {ChainFS(n) : n \in ChainLens}
    /\ loads = 1
    /\ outcome = "returned"
    /\ Len(diagnostic) > depthLimit
    /\ Last(diagnostic) = LoopLine

\* the directory holding the file of effective path p
DirOf(p) == SubSeq(p.segs, 1, Len(p.segs) - 1)

\* the path a step has to arrive at for requested path p and base directory
Resolved(p, dir) == Abs(NormalSegs(<<>>, IF p.abs THEN p.segs ELSE dir \o p.segs))

(***************************************************************************)
(* C8: at every nesting depth a relative include path found in file A is   *)
(* resolved against the directory of A's effective path and an absolute    *)
(* one is used as it is; the path given to the top-level Load is resolved  *)
(* against the current working directory when relative.  The path a step   *)
(* resolved is the one its path-not-found or loading line names.           *)
(***************************************************************************)
C8_RelativeToIncluder ==
    [][/\ (/\ MergeChild
           /\ IsInclude(CurrentKV)
           /\ depth < depthLimit
           /\ outcome' # "raised")
          => /\ Len(diagnostic') > Len(diagnostic)
             /\ StepLine.kind \in {"NotFound", "Loading"}
             /\ StepLine.path = Resolved(CurrentKV[2].data, DirOf(Top.path))
       /\ \A p \in RootPaths :
             (LoadTop(p) /\ outcome' # "raised")
             => /\ Len(diagnostic') > Len(diagnostic)
                /\ StepLine.kind \in {"NotFound", "Loading"}
                /\ StepLine.path = Resolved(p, <<"w">>)]_vars

\* the root is d1/a under the working directory /w, it includes ../d2/c, and
\* c's relative include b was looked up in /w/d2, not in /w/d1 nor in /w
C8_Witness ==
    /\ diagnostic # <<>>
    /\ diagnostic[1] = LoadingLine(Abs(PA))
    /\ \E i \in 1..Len(diagnostic) : diagnostic[i] = LoadingLine(Abs(PC))
    /\ \E i \in 1..Len(diagnostic) : diagnostic[i] = NotFoundLine(Abs(<<"w", "d2", "b">>))

(***************************************************************************)
(* C9 (as claimed): the destination is append-only: every step leaves the  *)
(* children it had in place, unchanged, and only adds children after them. *)
(***************************************************************************)
C9_AppendOnly == [][IsPrefix(root.kids, root'.kids)]_vars

\* what one step of a Load may do to depth, to the files opened and to the
\* nesting of active Loads
C10_Step ==
    /\ stack # <<>> => depth' >= depth
    /\ CountLoading(diagnostic') > CountLoading(diagnostic) =>
          /\ CountLoading(diagnostic') = CountLoading(diagnostic) + 1
          /\ depth' <= depthLimit
          /\ stack # <<>> => depth' = depth + 1
    /\ (stack # <<>> /\ depth >= depthLimit) =>
          /\ CountLoading(diagnostic') = CountLoading(diagnostic)
          /\ Len(stack') <= Len(stack)

(***************************************************************************)
(* C10: every top-level Load terminates, whatever the include graph: while *)
(* a Load runs depth only grows, each file opened for parsing takes one    *)
(* step of depth at most depthLimit, so no Load opens more than depthLimit *)
(* files, and a running Load always comes to its end.                      *)
(***************************************************************************)
C10_Terminates ==
    /\ [][C10_Step]_vars
    /\ [](CountLoading(diagnostic) <= depthLimit * loads)
    /\ [](Len(stack) <= depthLimit)
    /\ (stack # <<>>) ~> (stack = <<>>)

\* a file that includes itself was loaded and the Load came to its end with
\* depthLimit files opened
C10_Witness ==
    /\ loads = 1
    /\ stack = <<>>
    /\ outcome = "returned"
    /\ depth > depthLimit
    /\ CountLoading(diagnostic) = depthLimit
    /\ \A i \in 1..Len(diagnostic) :
          diagnostic[i].kind = "Loading" => diagnostic[i].path = Abs(PA)

====
